---- MODULE Spec2Model ----
(***************************************************************************)
(* Model of bisection_method (src/bisection_method.py).                    *)
(*                                                                         *)
(* Numbers.  Abscissae are integers counted in steps of 1/Unit of the      *)
(* caller's unit, with Unit = 2^MaxIterBound, and the caller's endpoints   *)
(* are multiples of Unit: every midpoint (a + b) / 2 the loop can compute  *)
(* within MaxIterBound iterations is then an integer, so the arithmetic    *)
(* of the model is the exact arithmetic of the code on dyadic numbers.     *)
(*                                                                         *)
(* The target function.  The solver reads f only through its values at     *)
(* a, b and c.  The module-level f of the source (0.5*e^x - 5x + 2) is a   *)
(* continuous function with two simple roots; the model takes f from the   *)
(* family s * PRODUCT (2x - r) over one or two distinct roots r/2, r in    *)
(* RootPos, which has the same shape, lets a root fall exactly on a        *)
(* midpoint (even r) or strictly between grid points (odd r), and whose    *)
(* true roots are known exactly.                                           *)
(***************************************************************************)
EXTENDS Integers, Sequences, FiniteSets, TLC

VARIABLES fdef, a_init, b_init, a, b, tolerance, max_iterations, i, c, results, pc, ret, out, hist

vars == <<fdef, a_init, b_init, a, b, tolerance, max_iterations, i, c, results, pc, ret, out, hist>>

\* ---------------------------------------------------------------- bounds
MaxIterBound == 3

RECURSIVE Pow2(_)
Pow2(n) == IF n = 0 THEN 1 ELSE 2 * Pow2(n - 1)

Unit == Pow2(MaxIterBound)

\* endpoints the caller may pass, tolerances, iteration budgets
Endpoints == {0, Unit}
Tolerances == {0, Unit \div 4 + 1, Unit \div 2 + 1, Unit + 1}
Budgets == 0..MaxIterBound

\* roots of the target function, in half steps (r stands for the abscissa r/2)
RootPos == 0..(2 * Unit)
FDefs == {[s |-> s, roots |-> R] : s \in {1, -1},
                                    R \in {{r1, r2} : r1 \in RootPos, r2 \in RootPos}}

\* ---------------------------------------------------------------- values
\* a local name is modelled as a sequence: <<>> while unbound, <<v>> once bound to v
Unbound == <<>>
Bound(v) == <<v>>

\* what a call hands back: still running, the pair (None, None) of line 26, the
\* pair (df, c) of line 62, or the UnboundLocalError the read of c raises at
\* line 62 when no iteration has bound it
NoRet == [kind |-> "running", df |-> <<>>, root |-> <<>>]
NoneNone == [kind |-> "none", df |-> <<>>, root |-> <<>>]
Pair(df, root) == [kind |-> "pair", df |-> df, root |-> root]
Raised == [kind |-> "UnboundLocalError", df |-> <<>>, root |-> <<>>]

\* the call observed for the comparison of repeated calls: none yet
NoHist == <<>>

Abs(x) == IF x < 0 THEN -x ELSE x

RECURSIVE Prod(_, _)
Prod(R, x) == IF R = {} THEN 1
              ELSE LET r == CHOOSE r \in R : TRUE
                   IN (2 * x - r) * Prod(R \ {r}, x)

\* f(x), line 5-7
f(x) == fdef.s * Prod(fdef.roots, x)

\* line 24: the bracket test that rejects the call
BracketFailsStrict(fa, fb) == fa * fb > 0
BracketFails(fa, fb) == fa * fb >= 0

\* line 32
MidpointNoParen(x, y) == x + y \div 2
Midpoint(x, y) == (x + y) \div 2

\* line 36
ErrorNoAbs(x, y) == y - x
ErrorOf(x, y) == Abs(y - x)

\* line 51
ConvergedHalf(error, tol) == 2 * error < tol
Converged(error, tol) == error < tol

\* line 56: the branch that moves b
MoveB(fa, fc) == fa * fc < 0

\* a fresh call frame holds no c (c is bound first at line 32)
StaleC == c
FreshC == Unbound

\* lines 39-48
RecordZeroBased(k, x, y, m) ==
    [iteration |-> k - 1, guess_a |-> x, guess_b |-> y, midpoint_c |-> m,
     fa |-> f(x), fb |-> f(y), fc |-> f(m), error |-> ErrorOf(x, y)]
Record(k, x, y, m) ==
    [iteration |-> k, guess_a |-> x, guess_b |-> y, midpoint_c |-> m,
     fa |-> f(x), fb |-> f(y), fc |-> f(m), error |-> ErrorOf(x, y)]

\* ---------------------------------------------------------------- initial state
Init ==
    /\ fdef \in FDefs
    /\ a_init = 0 /\ b_init = 0
    /\ a = 0 /\ b = 0 /\ tolerance = 0 /\ max_iterations = 0
    /\ i = 0
    /\ c = Unbound
    /\ results = <<>>
    /\ pc = "idle"
    /\ ret = NoRet
    /\ out = <<>>
    /\ hist = NoHist

\* ---------------------------------------------------------------- actions
\* line 9: a call binds the parameters in a fresh frame
Call(a0, b0, tol, mi) ==
    /\ pc \in {"idle", "done"}
    /\ a_init' = a0 /\ b_init' = b0
    /\ a' = a0 /\ b' = b0 /\ tolerance' = tol /\ max_iterations' = mi
    /\ i' = 0
    /\ c' = FreshC
    /\ results' = <<>>
    /\ ret' = NoRet
    /\ out' = <<>>
    /\ pc' = "check"
    /\ UNCHANGED <<fdef, hist>>

\* lines 24-26
Reject ==
    /\ pc = "check"
    /\ BracketFails(f(a), f(b))
    /\ out' = Append(out, "Error: f(a) and f(b) must have opposite signs!")
    /\ ret' = NoneNone
    /\ pc' = "done"
    /\ UNCHANGED <<fdef, a_init, b_init, a, b, tolerance, max_iterations, i, c, results, hist>>

\* lines 24, 29
Enter ==
    /\ pc = "check"
    /\ ~BracketFails(f(a), f(b))
    /\ results' = <<>>
    /\ i' = 0
    /\ pc' = "loop"
    /\ UNCHANGED <<fdef, a_init, b_init, a, b, tolerance, max_iterations, c, ret, out, hist>>

\* lines 31-53: an iteration that ends the loop by convergence
IterConverge ==
    /\ pc = "loop"
    /\ i < max_iterations
    /\ LET m == Midpoint(a, b)
           rec == Record(i + 1, a, b, m)
       IN /\ Converged(rec.error, tolerance)
          /\ c' = Bound(m)
          /\ results' = Append(results, rec)
          /\ out' = Append(out, "Converged")
          /\ pc' = "exit"
    /\ UNCHANGED <<fdef, a_init, b_init, a, b, tolerance, max_iterations, i, ret, hist>>

\* lines 31-57: an iteration that narrows to [a, c]
IterMoveB ==
    /\ pc = "loop"
    /\ i < max_iterations
    /\ LET m == Midpoint(a, b)
           rec == Record(i + 1, a, b, m)
       IN /\ ~Converged(rec.error, tolerance)
          /\ MoveB(rec.fa, rec.fc)
          /\ c' = Bound(m)
          /\ results' = Append(results, rec)
          /\ b' = m
    /\ i' = i + 1
    /\ UNCHANGED <<fdef, a_init, b_init, a, tolerance, max_iterations, pc, ret, out, hist>>

\* lines 31-59: an iteration that narrows to [c, b]
IterMoveA ==
    /\ pc = "loop"
    /\ i < max_iterations
    /\ LET m == Midpoint(a, b)
           rec == Record(i + 1, a, b, m)
       IN /\ ~Converged(rec.error, tolerance)
          /\ ~MoveB(rec.fa, rec.fc)
          /\ c' = Bound(m)
          /\ results' = Append(results, rec)
          /\ a' = m
    /\ i' = i + 1
    /\ UNCHANGED <<fdef, a_init, b_init, b, tolerance, max_iterations, pc, ret, out, hist>>

\* line 31: range(max_iterations) is exhausted
LoopEnd ==
    /\ pc = "loop"
    /\ i >= max_iterations
    /\ pc' = "exit"
    /\ UNCHANGED <<fdef, a_init, b_init, a, b, tolerance, max_iterations, i, c, results, ret, out, hist>>

\* lines 61-62
Return ==
    /\ pc = "exit"
    /\ c # Unbound
    /\ ret' = Pair(results, c)
    /\ pc' = "done"
    /\ UNCHANGED <<fdef, a_init, b_init, a, b, tolerance, max_iterations, i, c, results, out, hist>>

\* line 62 with c never bound: the read of c raises
RaiseUnbound ==
    /\ pc = "exit"
    /\ c = Unbound
    /\ ret' = Raised
    /\ pc' = "done"
    /\ UNCHANGED <<fdef, a_init, b_init, a, b, tolerance, max_iterations, i, c, results, out, hist>>

Next ==
    \/ \E a0 \in Endpoints, b0 \in Endpoints, tol \in Tolerances, mi \in Budgets :
          Call(a0, b0, tol, mi)
    \/ Reject
    \/ Enter
    \/ IterConverge
    \/ IterMoveB
    \/ IterMoveA
    \/ LoopEnd
    \/ Return
    \/ RaiseUnbound

Spec == Init /\ [][Next]_vars

\* ---------------------------------------------------------------- repeated calls
\* lines 102-117: the script keeps the outcome of one finished call (df1, root1)
\* while it calls the solver again; hist holds the arguments and the outcome of
\* the call kept, and the calls that come after are compared with it.
Args == <<a_init, b_init, tolerance, max_iterations>>

Observe ==
    /\ pc = "done"
    /\ hist = NoHist
    /\ hist' = <<[args |-> Args, ret |-> ret, out |-> out]>>
    /\ pc' = "idle"
    /\ UNCHANGED <<fdef, a_init, b_init, a, b, tolerance, max_iterations, i, c,
                   results, ret, out>>

\* the target functions of the repeated-call specification: one simple root
FDefsRepeat == {d \in FDefs : Cardinality(d.roots) = 1 /\ d.s = 1}

InitRepeat == Init /\ fdef \in FDefsRepeat

NextRepeat == Next \/ Observe

SpecRepeat == InitRepeat /\ [][NextRepeat]_vars

\* ---------------------------------------------------------------- properties
Min(x, y) == IF x < y THEN x ELSE y
Max(x, y) == IF x > y THEN x ELSE y

\* the call in progress or just finished was given a valid bracket
ValidBracket == f(a_init) * f(b_init) < 0

\* the last record of a returned record sequence
LastRec == ret.df[Len(ret.df)]

\* a zero of f fell exactly on a recorded midpoint that did not end the loop
ZeroMidpointPassed ==
    \E k \in 1..(Len(results) - 1) : results[k].fc = 0

\* C1: a call whose endpoint values have a product >= 0 (same sign, or a zero
\* endpoint value) never enters the loop: it ends with the pair (None, None),
\* the error message, and no record.
C1_BracketFailure ==
    (pc \notin {"idle", "check"} /\ f(a_init) * f(b_init) >= 0)
        => /\ pc = "done"
           /\ ret = NoneNone
           /\ results = <<>>
           /\ c = Unbound

C1_Witness ==
    /\ pc = "done"
    /\ f(a_init) * f(b_init) = 0
    /\ a_init # b_init
    /\ ret = NoneNone

\* C2: every finished call with a valid bracket, whatever the tolerance and the
\* budget (max_iterations = 0 included), returns a non-empty record sequence and
\* a defined root.
C2_NonEmptyOnValid ==
    (pc = "done" /\ ValidBracket)
        => /\ ret.kind = "pair"
           /\ Len(ret.df) >= 1
           /\ ret.root # Unbound

\* C3: the root returned for a valid bracket lies within the last recorded error
\* of some true root of f (roots are held in half steps, hence the factor 2).
C3_RootWithinError ==
    (pc = "done" /\ ret.kind = "pair")
        => \E r \in fdef.roots : Abs(2 * ret.root[1] - r) <= 2 * LastRec.error

\* C4: from one record to the next the recorded error halves exactly.
C4_ErrorHalves ==
    \A k \in 2..Len(results) : 2 * results[k].error = results[k - 1].error

C4_Witness ==
    /\ Len(results) = MaxIterBound
    /\ \E j \in 2..Len(results) : results[j].guess_b # results[j - 1].guess_b
    /\ \E j \in 2..Len(results) : results[j].guess_a # results[j - 1].guess_a

\* C5: a finished call with a valid bracket in which no record has an error
\* below the tolerance returned exactly max_iterations records and the midpoint
\* of the last of them, and printed no convergence message.
C5_ExhaustedBudget ==
    (/\ pc = "done"
     /\ ValidBracket
     /\ \A k \in 1..Len(results) : results[k].error >= tolerance)
        => /\ ret.kind = "pair"
           /\ Len(ret.df) = max_iterations
           /\ ret.root = Bound(ret.df[max_iterations].midpoint_c)
           /\ out = <<>>

\* C6: a finished call given the arguments of the call observed before it has
\* the same outcome: the same records and root (or the same failure) and the
\* same messages.
C6_SameArgsSameOutcome ==
    (pc = "done" /\ hist # NoHist /\ hist[1].args = Args)
        => /\ ret = hist[1].ret
           /\ out = hist[1].out

C6_Witness ==
    /\ pc = "done"
    /\ hist # NoHist
    /\ hist[1].args = Args
    /\ ret.kind = "pair"
    /\ Len(ret.df) >= 2

\* C7: only the last record can have an error below the tolerance, and the root
\* returned is the midpoint of the last record.
C7_StopsAtFirstConverged ==
    /\ \A k \in 1..(Len(results) - 1) : results[k].error >= tolerance
    /\ (pc = "done" /\ ret.kind = "pair")
          => /\ ret.df = results
             /\ Len(ret.df) >= 1
             /\ ret.root = Bound(LastRec.midpoint_c)

C7_Witness ==
    /\ pc = "done"
    /\ ret.kind = "pair"
    /\ Len(ret.df) >= 2
    /\ LastRec.error < tolerance
    /\ Len(ret.df) < max_iterations

\* C8: every record of a run has f(a) * f(b) <= 0 and a true root of f between
\* its a and its b.
C8_BracketKept ==
    \A k \in 1..Len(results) :
        /\ results[k].fa * results[k].fb <= 0
        /\ \E r \in fdef.roots :
              /\ 2 * Min(results[k].guess_a, results[k].guess_b) <= r
              /\ r <= 2 * Max(results[k].guess_a, results[k].guess_b)

ExpectedCount(w, tol, mi) ==
    IF \E k \in 1..mi : w < tol * Pow2(k - 1)
    THEN CHOOSE k \in 1..mi : /\ w < tol * Pow2(k - 1)
                              /\ \A j \in 1..(k - 1) : ~(w < tol * Pow2(j - 1))
    ELSE mi

====
